---- MODULE Spec2Model ----
(***************************************************************************)
(* Browser-side scripts of the diabetes recommendation application:        *)
(*   clinician dashboard  (src/unnamed/part_000)                           *)
(*   patient dashboard    (src/frontend/script.js)                         *)
(*   legacy form page     (src/diabetes_ai_project/frontend/script.js)     *)
(*   legacy history page  (src/unnamed/part_001)                           *)
(* Each script runs in a page of its own; `page` says which one is loaded. *)
(* Strings are sequences of one-character strings, JavaScript values that  *)
(* may be a number, null or undefined are records [t, v].                  *)
(***************************************************************************)
EXTENDS Integers, Sequences, FiniteSets, TLC

\* ------------------------------------------------------------------------
\* JavaScript values
\* ------------------------------------------------------------------------
Num(n) == [t |-> "num", v |-> n]
Null == [t |-> "null", v |-> 0]
Undef == [t |-> "undef", v |-> 0]
NaN == [t |-> "nan", v |-> 0]

\* Number(x): a number is itself, null is 0, undefined is NaN
ToNumber(x) ==
  CASE x.t = "num" -> x
    [] x.t = "null" -> Num(0)
    [] OTHER -> NaN

\* a < n and a >= n on a Number() result: every comparison with NaN is false
NumLt(a, n) == a.t = "num" /\ a.v < n
NumGe(a, n) == a.t = "num" /\ a.v >= n

\* x == null (loose): true of null and of undefined
IsNullish(x) == x.t \in {"null", "undef"}

\* an array-valued field: [t |-> "arr", v |-> <<...>>], or absent
Arr(s) == [t |-> "arr", v |-> s]
NoArr == [t |-> "undef", v |-> <<>>]
IsArray(x) == x.t = "arr"

\* ------------------------------------------------------------------------
\* Strings
\* ------------------------------------------------------------------------
RECURSIVE Concat(_)
Concat(ss) == IF ss = <<>> THEN <<>> ELSE Head(ss) \o Concat(Tail(ss))

RECURSIVE Join(_, _)
Join(ss, sep) ==
  IF ss = <<>> THEN <<>>
  ELSE IF Len(ss) = 1 THEN Head(ss)
  ELSE Head(ss) \o sep \o Join(Tail(ss), sep)

Digit(d) == <<"0", "1", "2", "3", "4", "5", "6", "7", "8", "9">>[d + 1]

RECURSIVE IntToStr(_)
IntToStr(n) == IF n < 10 THEN <<Digit(n)>> ELSE IntToStr(n \div 10) \o <<Digit(n % 10)>>

\* n.toFixed(d) of a whole number n
ToFixed(n, d) == IntToStr(n) \o (IF d = 0 THEN <<>> ELSE <<".">> \o [i \in 1..d |-> "0"])

SpecialChars == {"&", "<", ">", "\"", "'"}

EntityOf(c) ==
  CASE c = "&" -> <<"&", "a", "m", "p", ";">>
    [] c = "<" -> <<"&", "l", "t", ";">>
    [] c = ">" -> <<"&", "g", "t", ";">>
    [] c = "\"" -> <<"&", "q", "u", "o", "t", ";">>
    [] c = "'" -> <<"&", "#", "0", "3", "9", ";">>
    [] OTHER -> <<c>>

escapeHtml(str) == Concat([i \in 1..Len(str) |-> EntityOf(str[i])])

\* ------------------------------------------------------------------------
\* Clinician dashboard: renderer
\* A patient record is [name, bmi, diet, exercise, general, feedback, risks,
\* ai_explanation]; name and ai_explanation are strings (absent reads as the
\* empty string: both are falsy), diet/exercise/general and risks are arrays
\* or absent, bmi and feedback are numbers, null or absent.
\* ------------------------------------------------------------------------
Slice(s, from, to) == SubSeq(s, from + 1, IF to < Len(s) THEN to ELSE Len(s))

\* items.filter(Boolean): the empty string is the falsy entry of a string list
FilterBoolean(items) == SelectSeq(items, LAMBDA x : x # <<>>)

MutedCell == [muted |-> TRUE, inline |-> <<>>, details |-> FALSE, count |-> 0, all |-> <<>>]

renderListCell_countRest(items) ==
  LET arr == IF IsArray(items) THEN FilterBoolean(items.v) ELSE <<>>
      first == Slice(arr, 0, 3)
      rest == Slice(arr, 3, Len(arr))
      firstHtml == [i \in 1..Len(first) |-> escapeHtml(first[i])]
  IN IF Len(arr) = 0 THEN MutedCell
     ELSE IF Len(rest) = 0
       THEN [muted |-> FALSE, inline |-> firstHtml, details |-> FALSE, count |-> 0, all |-> <<>>]
       ELSE [muted |-> FALSE, inline |-> firstHtml, details |-> TRUE, count |-> Len(rest),
             all |-> [i \in 1..Len(arr) |-> escapeHtml(arr[i])]]

\* The cell markup: the inline <ul> items, and the <details> disclosure with
\* its "Show all (count)" label and its own <ul> items.
renderListCell(items) ==
  LET arr == IF IsArray(items) THEN FilterBoolean(items.v) ELSE <<>>
      first == Slice(arr, 0, 3)
      rest == Slice(arr, 3, Len(arr))
      firstHtml == [i \in 1..Len(first) |-> escapeHtml(first[i])]
  IN IF Len(arr) = 0 THEN MutedCell
     ELSE IF Len(rest) = 0
       THEN [muted |-> FALSE, inline |-> firstHtml, details |-> FALSE, count |-> 0, all |-> <<>>]
       ELSE [muted |-> FALSE, inline |-> firstHtml, details |-> TRUE, count |-> Len(arr),
             all |-> [i \in 1..Len(arr) |-> escapeHtml(arr[i])]]

\* the two synthesized risk labels (the warning sign is written "!")
HighBmiLabel == <<"!", " ", "H", "i", "g", "h", " ", "B", "M", "I">>
LowFeedbackLabel == <<"!", " ", "L", "o", "w", " ", "F", "e", "e", "d", "b", "a", "c", "k">>
NoneText == <<"N", "o", "n", "e">>
NAText == <<"N", "/", "A">>
UnknownText == <<"U", "n", "k", "n", "o", "w", "n">>
RiskSep == <<" ", "|", " ">>

RisksAfter_alwaysPush(risks, bmi, fb) ==
  risks \o (IF NumGe(bmi, 30) THEN <<HighBmiLabel>> ELSE <<>>)
        \o (IF fb.t = "num" /\ fb.v < 3 THEN <<LowFeedbackLabel>> ELSE <<>>)

\* The risks array after the forEach body: pushes happen only on an empty list
RisksAfter(risks, bmi, fb) ==
  IF Len(risks) = 0
    THEN (IF NumGe(bmi, 30) THEN <<HighBmiLabel>> ELSE <<>>)
         \o (IF fb.t = "num" /\ fb.v < 3 THEN <<LowFeedbackLabel>> ELSE <<>>)
    ELSE risks

\* One iteration of rows.forEach: the <tr> markup, and the record as the
\* iteration leaves it. `risks` aliases p.risks when that is an array, so the
\* pushes land in the record; otherwise they land in a fresh array.
renderRow(p) ==
  LET bmi == ToNumber(p.bmi)
      fb == IF p.feedback.t \in {"null", "undef"} THEN Null ELSE ToNumber(p.feedback)
      risks == RisksAfter(IF IsArray(p.risks) THEN p.risks.v ELSE <<>>, bmi, fb)
      riskText == IF Len(risks) # 0 THEN Join(risks, RiskSep) ELSE NoneText
  IN [html |-> [name |-> escapeHtml(IF p.name # <<>> THEN p.name ELSE UnknownText),
                bmi |-> IF bmi.t = "nan" THEN NAText ELSE ToFixed(bmi.v, 2),
                diet |-> renderListCell(p.diet),
                exercise |-> renderListCell(p.exercise),
                general |-> renderListCell(p.general),
                feedback |-> IF fb.t = "null" THEN NAText
                             ELSE IF fb.t = "nan" THEN <<"N", "a", "N", "/", "5">>
                             ELSE ToFixed(fb.v, 1) \o <<"/", "5">>,
                risk |-> escapeHtml(riskText),
                ai |-> escapeHtml(p.ai_explanation)],
      rec |-> IF IsArray(p.risks) THEN [p EXCEPT !.risks = Arr(risks)] ELSE p]

NoMarkup == [kind |-> "none", rows |-> <<>>]
NoDataMarkup == [kind |-> "p", rows |-> <<>>]

\* renderTable(rows): what host.innerHTML becomes, and the rows as left behind
renderTable(rows) ==
  IF Len(rows) = 0 THEN [html |-> NoDataMarkup, rows |-> rows]
  ELSE [html |-> [kind |-> "table", rows |-> [i \in 1..Len(rows) |-> renderRow(rows[i]).html]],
        rows |-> [i \in 1..Len(rows) |-> renderRow(rows[i]).rec]]


\* ------------------------------------------------------------------------
\* Bounds and input domains
\* ------------------------------------------------------------------------
\* rows in a /clinician-data payload
MaxRows == 2
\* entries in a list-valued field handed to the renderer
MaxItems == 5
\* recommendation requests the legacy form page sends in one run
MaxRequests == 4
\* getRecommendation() calls of the patient page that may be running at once
MaxTasks == 2

BmiValues == {Num(24), Num(25), Num(30)}
FeedbackValues == {Null, Num(2), Num(4)}
\* feedback absent, and feedback between the two bands
EdgeFeedback == {Undef, Num(3)}
RiskValues == {Arr(<<>>)}

PatientRecord(b, f, r) ==
  [name |-> <<"A">>, bmi |-> b, diet |-> NoArr, exercise |-> NoArr, general |-> NoArr,
   feedback |-> f, risks |-> r, ai_explanation |-> <<>>]

\* every BMI value with every feedback value, and the edge feedback values on
\* a record of the high BMI band
Records ==
  {PatientRecord(b, f, r) : b \in BmiValues, f \in FeedbackValues, r \in RiskValues}
  \cup {PatientRecord(Num(30), f, r) : f \in EdgeFeedback, r \in RiskValues}
Payloads == UNION {[1..n -> Records] : n \in 0..MaxRows}

BmiFilters == {"all", "low", "medium", "high"}
FeedbackFilters == {"all", "low", "high"}

NoErr == [kind |-> "none", code |-> 0]
Errors == {[kind |-> "status", code |-> 500], [kind |-> "transport", code |-> 0]}

Canvases == {"bmiChart", "feedbackChart", "dietChart", "exerciseChart", "generalChart"}

VARIABLES
  page,                  \* which script's page is loaded; "unloaded" after navigation
  location,              \* window.location.href once assigned, "" before
  issued,                \* per task: the URLs its current run has requested
  chartsOn,              \* per canvas: the Chart instances bound to it and not destroyed
  bmiChartInstance,      \* "null", or the state of the instance it refers to
  feedbackChartInstance,
  allPatients,
  statusMsg,             \* text of #statusMsg, "" when hidden
  patientsTable,         \* innerHTML of #patientsTable
  welcomeText,
  listeners,             \* buttons with a click listener
  bmiFilter, feedbackFilter,   \* the two <select> controls
  initPc,                \* where init() stands
  fi,                    \* fetchWithRetry: i
  lastErr,               \* fetchWithRetry: lastErr
  delays,                \* the timeouts fetchWithRetry has waited, in order
  nRequests,             \* requests fetchWithRetry has issued
  lastOutcome,           \* how its latest request ended
  fetchResult,           \* what fetchWithRetry returned or threw
  lastApply,             \* the latest applyFilters call: selection, rows, allPatients before
  currentUserId,         \* patient page
  charts,                \* patient page: per canvas id, "null" or the state of charts[id]
  recommendationResult,  \* innerHTML of #recommendationResult
  chartsTitle,           \* whether #chartsTitle is displayed
  loadPc,                \* mustBePatient() started by DOMContentLoaded
  recTasks,              \* the getRecommendation() calls: [pc, mismatch, issued] each
  recommendationHistory, \* legacy form page
  result,                \* innerHTML of #result
  historyList,           \* innerHTML of #historyList
  inFlight,              \* POST /recommend requests not yet answered
  sent,                  \* POST /recommend requests sent so far
  received,              \* the results handed to updateHistory, newest first
  historyTable,          \* legacy history page: innerHTML of #historyTable
  histPc,                \* loadHistory()'s fetch
  tRows, tHtml,          \* renderer harness: the rows, and the markup of each renderTable call
  tItems, tCell          \* renderer harness: a list field, and its renderListCell markup

commonVars == <<page, location, issued, chartsOn>>
fetchVars == <<fi, lastErr, delays, nRequests, lastOutcome, fetchResult>>
clinVars == <<bmiChartInstance, feedbackChartInstance, allPatients, statusMsg, patientsTable,
              welcomeText, listeners, bmiFilter, feedbackFilter, initPc, lastApply>>
patVars == <<currentUserId, charts, recommendationResult, chartsTitle, loadPc, recTasks>>
legVars == <<recommendationHistory, result, historyList, inFlight, sent, received>>
histVars == <<historyTable, histPc>>
testVars == <<tRows, tHtml, tItems, tCell>>

\* ------------------------------------------------------------------------
\* Chart library: new Chart(canvas) and chart.destroy()
\* ------------------------------------------------------------------------
NewChart(on, canvas) == [on EXCEPT ![canvas] = @ + 1]
\* destroy() through a handle: releases the instance unless it is already destroyed
DestroyVia(on, canvas, handle) == IF handle = "live" THEN [on EXCEPT ![canvas] = @ - 1] ELSE on
Destroyed(handle) == IF handle = "null" THEN "null" ELSE "destroyed"

\* ------------------------------------------------------------------------
\* Clinician dashboard
\* ------------------------------------------------------------------------
Tries == 3
BaseDelay == 250
CouldNotLoad == "Could not load clinician dashboard data. Please refresh once."
NoMatch == "No patients match the selected filters."

drawCharts_noDestroy(rows, bmiH, fbH, on) ==
  IF Len(rows) = 0 THEN [bmi |-> bmiH, fb |-> fbH, on |-> on]
  ELSE [bmi |-> "live", fb |-> "live",
        on |-> NewChart(NewChart(on, "bmiChart"), "feedbackChart")]

\* drawCharts(rows): the two handles and the canvases afterwards
drawCharts(rows, bmiH, fbH, on) ==
  LET on1 == DestroyVia(DestroyVia(on, "bmiChart", bmiH), "feedbackChart", fbH)
  IN IF Len(rows) = 0
       THEN [bmi |-> Destroyed(bmiH), fb |-> Destroyed(fbH), on |-> on1]
       ELSE [bmi |-> "live", fb |-> "live",
             on |-> NewChart(NewChart(on1, "bmiChart"), "feedbackChart")]

BmiBand_gt(bf, p) ==
  CASE bf = "low" -> NumLt(ToNumber(p.bmi), 25)
    [] bf = "medium" -> NumGe(ToNumber(p.bmi), 25) /\ NumLt(ToNumber(p.bmi), 30)
    [] bf = "high" -> NumGe(ToNumber(p.bmi), 31)
    [] OTHER -> TRUE

BmiBand(bf, p) ==
  CASE bf = "low" -> NumLt(ToNumber(p.bmi), 25)
    [] bf = "medium" -> NumGe(ToNumber(p.bmi), 25) /\ NumLt(ToNumber(p.bmi), 30)
    [] bf = "high" -> NumGe(ToNumber(p.bmi), 30)
    [] OTHER -> TRUE

FeedbackBand(ff, p) ==
  CASE ff = "low" -> ~IsNullish(p.feedback) /\ NumLt(ToNumber(p.feedback), 3)
    [] ff = "high" -> ~IsNullish(p.feedback) /\ NumGe(ToNumber(p.feedback), 4)
    [] OTHER -> TRUE

\* the `filtered` array of applyFilters
filterRows(all, bf, ff) ==
  SelectSeq(SelectSeq(all, LAMBDA p : BmiBand(bf, p)), LAMBDA p : FeedbackBand(ff, p))

\* renderTable works on the very records allPatients holds: what it leaves in
\* a filtered record is what allPatients holds afterwards
WriteBack(all, bf, ff, rows) ==
  LET keep == [i \in 1..Len(all) |-> BmiBand(bf, all[i]) /\ FeedbackBand(ff, all[i])]
      pos(i) == Cardinality({j \in 1..i : keep[j]})
  IN [i \in 1..Len(all) |-> IF keep[i] THEN rows[pos(i)] ELSE all[i]]

NoApply == [called |-> FALSE, bmi |-> "all", feedback |-> "all", rows |-> <<>>, before |-> <<>>]
Pending == [state |-> "pending", payload |-> <<>>, err |-> NoErr]
NoOutcome == [ok |-> FALSE, payload |-> <<>>, err |-> NoErr]

\* requireClinicianAndSetHeader: /whoami cannot be fetched or parsed; the
\* rejection leaves init() (nothing catches it)
InitWhoamiFails ==
  /\ page = "clinician" /\ initPc = "whoami"
  /\ initPc' = "rejected"
  /\ UNCHANGED <<commonVars, fetchVars, bmiChartInstance, feedbackChartInstance, allPatients,
                 statusMsg, patientsTable, welcomeText, listeners, bmiFilter, feedbackFilter,
                 lastApply>>
  /\ UNCHANGED <<patVars, legVars, histVars, testVars>>

\* requireClinicianAndSetHeader: /whoami names another role; init() returns
InitWhoamiMismatch ==
  /\ page = "clinician" /\ initPc = "whoami"
  /\ location' = "/clinician_login.html"
  /\ initPc' = "done"
  /\ UNCHANGED <<page, issued, chartsOn, fetchVars, bmiChartInstance,
                 feedbackChartInstance, allPatients, statusMsg, patientsTable, welcomeText,
                 listeners, bmiFilter, feedbackFilter, lastApply>>
  /\ UNCHANGED <<patVars, legVars, histVars, testVars>>

\* requireClinicianAndSetHeader returns true; init() clears the status and
\* fetchWithRetry sends its first request
InitWhoamiClinician ==
  /\ page = "clinician" /\ initPc = "whoami"
  /\ welcomeText' = "Welcome, Clinician"
  /\ statusMsg' = ""
  /\ fi' = 0 /\ lastErr' = NoErr
  /\ nRequests' = 1
  /\ issued' = [issued EXCEPT !["init"] = @ \cup {"/clinician-data"}]
  /\ initPc' = "fetch"
  /\ UNCHANGED <<page, location, chartsOn, delays, lastOutcome, fetchResult,
                 bmiChartInstance, feedbackChartInstance, allPatients, patientsTable, listeners,
                 bmiFilter, feedbackFilter, lastApply>>
  /\ UNCHANGED <<patVars, legVars, histVars, testVars>>

\* fetchWithRetry: the request of attempt i answers 2xx with JSON; the value is
\* returned and init() goes on: renderTable, drawCharts, the three listeners
FetchAttemptOk ==
  /\ page = "clinician" /\ initPc = "fetch"
  /\ \E payload \in Payloads :
       \E table \in {renderTable(payload)} :
       \E drawn \in {drawCharts(table.rows, bmiChartInstance, feedbackChartInstance, chartsOn)} :
          /\ lastOutcome' = [ok |-> TRUE, payload |-> payload, err |-> NoErr]
          /\ fetchResult' = [state |-> "returned", payload |-> payload, err |-> NoErr]
          /\ allPatients' = table.rows
          /\ patientsTable' = table.html
          /\ bmiChartInstance' = drawn.bmi
          /\ feedbackChartInstance' = drawn.fb
          /\ chartsOn' = drawn.on
  /\ listeners' = {"applyBtn", "pdfBtn", "logoutBtn"}
  /\ initPc' = "done"
  /\ fi' = 0 /\ lastErr' = NoErr
  /\ UNCHANGED <<page, location, issued, delays, nRequests, statusMsg,
                 welcomeText, bmiFilter, feedbackFilter, lastApply>>
  /\ UNCHANGED <<patVars, legVars, histVars, testVars>>

\* fetchWithRetry: the request of attempt i fails (a non-2xx status, or the
\* transport); the catch block records the error and starts its timer
FetchAttemptFails ==
  /\ page = "clinician" /\ initPc = "fetch"
  /\ \E err \in Errors :
       /\ lastErr' = err
       /\ lastOutcome' = [ok |-> FALSE, payload |-> <<>>, err |-> err]
  /\ initPc' = "delay"
  /\ UNCHANGED <<commonVars, fi, delays, nRequests, fetchResult, bmiChartInstance,
                 feedbackChartInstance, allPatients, statusMsg, patientsTable, welcomeText,
                 listeners, bmiFilter, feedbackFilter, lastApply>>
  /\ UNCHANGED <<patVars, legVars, histVars, testVars>>

\* fetchWithRetry: the timer of the catch block fires after 250 * (i + 1) ms;
\* the loop either sends the next request or ends and throws lastErr, which
\* init() catches
FetchDelayElapsed ==
  /\ page = "clinician" /\ initPc = "delay"
  /\ delays' = Append(delays, BaseDelay * (fi + 1))
  /\ fi' = fi + 1
  /\ IF fi + 1 < Tries
       THEN /\ nRequests' = nRequests + 1
            /\ initPc' = "fetch"
            /\ UNCHANGED <<fetchResult, statusMsg>>
       ELSE /\ fetchResult' = [state |-> "thrown", payload |-> <<>>, err |-> lastErr]
            /\ statusMsg' = CouldNotLoad
            /\ initPc' = "done"
            /\ UNCHANGED nRequests
  /\ UNCHANGED <<commonVars, lastErr, lastOutcome, bmiChartInstance, feedbackChartInstance,
                 allPatients, patientsTable, welcomeText, listeners, bmiFilter, feedbackFilter,
                 lastApply>>
  /\ UNCHANGED <<patVars, legVars, histVars, testVars>>

applyFilters_inPlace(all, bf, ff) ==
  LET filtered == filterRows(all, bf, ff)
      table == renderTable(filtered)
  IN [filtered |-> filtered, html |-> table.html, all |-> table.rows]

\* applyFilters(): the rows handed to renderTable and drawCharts, the table
\* markup, and allPatients afterwards
applyFilters(all, bf, ff) ==
  LET filtered == filterRows(all, bf, ff)
      table == renderTable(filtered)
  IN [filtered |-> filtered, html |-> table.html, all |-> WriteBack(all, bf, ff, table.rows)]

\* the user sets the two selects and clicks Apply
ClickApply ==
  /\ page = "clinician" /\ location = "" /\ "applyBtn" \in listeners
  /\ \E bf \in BmiFilters, ff \in FeedbackFilters :
       \E res \in {applyFilters(allPatients, bf, ff)} :
       \E drawn \in {drawCharts(res.filtered, bmiChartInstance, feedbackChartInstance, chartsOn)} :
          /\ bmiFilter' = bf /\ feedbackFilter' = ff
          /\ allPatients' = res.all
          /\ patientsTable' = res.html
          /\ bmiChartInstance' = drawn.bmi
          /\ feedbackChartInstance' = drawn.fb
          /\ chartsOn' = drawn.on
          /\ statusMsg' = IF Len(res.filtered) = 0 THEN NoMatch ELSE ""
          /\ lastApply' = [called |-> TRUE, bmi |-> bf, feedback |-> ff,
                           rows |-> res.filtered, before |-> allPatients]
  /\ UNCHANGED <<page, location, issued, fetchVars, welcomeText, listeners, initPc>>
  /\ UNCHANGED <<patVars, legVars, histVars, testVars>>


\* ------------------------------------------------------------------------
\* Leaving the page
\* ------------------------------------------------------------------------
PatientCanvases == {"bmiChart", "dietChart", "exerciseChart", "generalChart"}
IdleTask == [pc |-> "idle", mismatch |-> FALSE, issued |-> {}]
NoResult == [kind |-> "none", bmi |-> Null, diet |-> <<>>, exercise |-> <<>>, general |-> <<>>]
NoCell == [muted |-> FALSE, inline |-> <<>>, details |-> FALSE, count |-> -1, all |-> <<>>]

\* The browser has left for `url`: the document and every binding of its
\* script are gone
Gone(url) ==
  /\ page' = "unloaded"
  /\ location' = url
  /\ issued' = [t \in {"init"} |-> {}]
  /\ chartsOn' = [c \in Canvases |-> 0]
  /\ bmiChartInstance' = "null" /\ feedbackChartInstance' = "null"
  /\ allPatients' = <<>> /\ statusMsg' = "" /\ patientsTable' = NoMarkup
  /\ welcomeText' = "" /\ listeners' = {}
  /\ bmiFilter' = "all" /\ feedbackFilter' = "all"
  /\ initPc' = "off"
  /\ fi' = 0 /\ lastErr' = NoErr /\ delays' = <<>> /\ nRequests' = 0
  /\ lastOutcome' = NoOutcome /\ fetchResult' = Pending
  /\ lastApply' = NoApply
  /\ currentUserId' = Null
  /\ charts' = [c \in PatientCanvases |-> "null"]
  /\ recommendationResult' = NoResult
  /\ chartsTitle' = FALSE
  /\ loadPc' = "off"
  /\ recTasks' = [i \in 1..MaxTasks |-> IdleTask]
  /\ recommendationHistory' = <<>> /\ result' = NoResult /\ historyList' = <<>>
  /\ inFlight' = 0 /\ sent' = 0 /\ received' = <<>>
  /\ historyTable' = <<>> /\ histPc' = "off"
  /\ UNCHANGED testVars

\* a navigation that was started (window.location.href assigned) completes
Unload ==
  /\ page \in {"clinician", "patient"} /\ location # ""
  /\ Gone(location)

\* downloadPdf(): navigates to /export-pdf with the two selections
ClickPdf ==
  /\ page = "clinician" /\ location = "" /\ "pdfBtn" \in listeners
  /\ Gone("/export-pdf")

\* logout(): POST /logout, then the redirect whatever the answer was (the
\* await between the two is not interleaved with other handlers here)
ClickLogout ==
  /\ page = "clinician" /\ location = "" /\ "logoutBtn" \in listeners
  /\ Gone("/clinician_login.html")

NextClinician ==
  \/ InitWhoamiFails \/ InitWhoamiMismatch \/ InitWhoamiClinician
  \/ FetchAttemptOk \/ FetchAttemptFails \/ FetchDelayElapsed
  \/ ClickApply \/ ClickPdf \/ ClickLogout

\* ------------------------------------------------------------------------
\* Patient dashboard (src/frontend/script.js)
\* ------------------------------------------------------------------------
WhoamiAnswers == {[role |-> "patient", user_id |-> Num(7)],
                  [role |-> "clinician", user_id |-> Num(9)]}

PlainRec == [bmi |-> Num(24), diet |-> <<<<"a">>>>, exercise |-> <<<<"b">>>>, general |-> <<>>]
MarkupRec == [bmi |-> Num(31), diet |-> <<<<"<", "b", ">">>, <<"a">>>>, exercise |-> <<<<"&">>>>,
              general |-> <<<<"'">>>>]
RecData == {PlainRec, MarkupRec}

\* drawChart(id, ...): charts and the canvases afterwards
drawChart(ch, on, id) ==
  [charts |-> [ch EXCEPT ![id] = "live"], on |-> NewChart(DestroyVia(on, id, ch[id]), id)]

\* drawChart(id, ...) when the labels cannot be computed (data is missing):
\* charts[id] has been destroyed and no new Chart is made
drawChartThrows(ch, on, id) ==
  [charts |-> [ch EXCEPT ![id] = Destroyed(@)], on |-> DestroyVia(on, id, ch[id])]

RECURSIVE drawAll(_, _, _)
drawAll(ch, on, ids) ==
  IF ids = <<>> THEN [charts |-> ch, on |-> on]
  ELSE LET d == drawChart(ch, on, Head(ids)) IN drawAll(d.charts, d.on, Tail(ids))

\* the markup getRecommendation() assigns to #recommendationResult: the <li>
\* items are the entries as received
RecommendationCard(data) ==
  [kind |-> "card", bmi |-> data.bmi, diet |-> data.diet, exercise |-> data.exercise,
   general |-> data.general]

\* mustBePatient() at DOMContentLoaded: /whoami cannot be fetched or parsed
LoadWhoamiFails ==
  /\ page = "patient" /\ loadPc = "whoami"
  /\ loadPc' = "rejected"
  /\ UNCHANGED <<commonVars, fetchVars, clinVars, legVars, histVars, testVars, currentUserId,
                 charts, recommendationResult, chartsTitle, recTasks>>

\* mustBePatient() at DOMContentLoaded: /whoami answers
LoadWhoami ==
  /\ page = "patient" /\ loadPc = "whoami"
  /\ \E me \in WhoamiAnswers :
       /\ location' = IF me.role # "patient" THEN "/login.html" ELSE location
       /\ currentUserId' = me.user_id
       /\ loadPc' = IF me.role # "patient" THEN "mismatch" ELSE "done"
  /\ UNCHANGED <<page, issued, chartsOn, fetchVars, clinVars, legVars, histVars,
                 testVars, charts, recommendationResult, chartsTitle, recTasks>>

\* the user clicks: getRecommendation() starts and mustBePatient() asks /whoami
ClickGetRecommendation ==
  /\ page = "patient" /\ location = ""
  /\ \E t \in 1..MaxTasks :
       /\ recTasks[t].pc = "idle"
       /\ recTasks' = [recTasks EXCEPT ![t] = [pc |-> "whoami", mismatch |-> FALSE,
                                               issued |-> {"/whoami"}]]
  /\ UNCHANGED <<commonVars, fetchVars, clinVars, legVars, histVars, testVars, currentUserId,
                 charts, recommendationResult, chartsTitle, loadPc>>

\* getRecommendation(): /whoami fails, mustBePatient() throws, the catch alerts
RecWhoamiFails ==
  /\ page = "patient"
  /\ \E t \in 1..MaxTasks :
       /\ recTasks[t].pc = "whoami"
       /\ recTasks' = [recTasks EXCEPT ![t].pc = "idle"]
  /\ UNCHANGED <<page, location, issued, chartsOn, fetchVars, clinVars, legVars, histVars,
                 testVars, currentUserId, charts, recommendationResult, chartsTitle, loadPc>>

\* getRecommendation(): /whoami answers; mustBePatient() assigns the redirect
\* on another role, sets currentUserId and returns; the payload is read from
\* the form and POST /recommend is sent
RecWhoami ==
  /\ page = "patient"
  /\ \E t \in 1..MaxTasks, me \in WhoamiAnswers :
       /\ recTasks[t].pc = "whoami"
       /\ location' = IF me.role # "patient" THEN "/login.html" ELSE location
       /\ currentUserId' = me.user_id
       /\ recTasks' = [recTasks EXCEPT ![t] = [pc |-> "recommend",
                                               mismatch |-> me.role # "patient",
                                               issued |-> @.issued \cup {"/recommend"}]]
  /\ UNCHANGED <<page, issued, chartsOn, fetchVars, clinVars, legVars, histVars,
                 testVars, charts, recommendationResult, chartsTitle, loadPc>>

\* getRecommendation(): POST /recommend fails or answers non-2xx; the catch alerts
RecommendFails ==
  /\ page = "patient"
  /\ \E t \in 1..MaxTasks :
       /\ recTasks[t].pc = "recommend"
       /\ recTasks' = [recTasks EXCEPT ![t].pc = "idle"]
  /\ UNCHANGED <<page, location, issued, chartsOn, fetchVars, clinVars, legVars, histVars,
                 testVars, currentUserId, charts, recommendationResult, chartsTitle, loadPc>>

\* getRecommendation(): POST /recommend answers 2xx; the card is rendered and
\* loadUserCharts() asks /user-charts/<currentUserId>
RecommendOk ==
  /\ page = "patient"
  /\ \E t \in 1..MaxTasks, data \in RecData :
       /\ recTasks[t].pc = "recommend"
       /\ recommendationResult' = RecommendationCard(data)
       /\ recTasks' = [recTasks EXCEPT ![t].pc = "charts",
                                       ![t].issued = @ \cup {"/user-charts"}]
  /\ UNCHANGED <<commonVars, fetchVars, clinVars, legVars, histVars, testVars, currentUserId,
                 charts, chartsTitle, loadPc>>

\* loadUserCharts(): the fetch fails or answers non-2xx; its catch alerts
UserChartsFails ==
  /\ page = "patient"
  /\ \E t \in 1..MaxTasks :
       /\ recTasks[t].pc = "charts"
       /\ recTasks' = [recTasks EXCEPT ![t].pc = "idle"]
  /\ UNCHANGED <<page, location, issued, chartsOn, fetchVars, clinVars, legVars, histVars,
                 testVars, currentUserId, charts, recommendationResult, chartsTitle, loadPc>>

\* loadUserCharts(): the answer arrives; the title is shown and the charts are
\* drawn in order. count() throws on a list that is missing, so the drawing
\* may stop after the first n charts, and then the catch alerts; with data.bmi
\* missing (n = 0) the first drawChart throws after its destroy()
UserChartsOk ==
  /\ page = "patient"
  /\ \E t \in 1..MaxTasks, n \in 0..4 :
       /\ recTasks[t].pc = "charts"
       /\ recTasks' = [recTasks EXCEPT ![t].pc = "idle"]
       /\ \E d \in {IF n = 0 THEN drawChartThrows(charts, chartsOn, "bmiChart")
                    ELSE drawAll(charts, chartsOn,
                            SubSeq(<<"bmiChart", "dietChart", "exerciseChart", "generalChart">>, 1, n))} :
            /\ charts' = d.charts
            /\ chartsOn' = d.on
  /\ chartsTitle' = TRUE
  /\ UNCHANGED <<page, location, issued, fetchVars, clinVars, legVars, histVars, testVars,
                 currentUserId, recommendationResult, loadPc>>

NextPatient ==
  \/ LoadWhoamiFails \/ LoadWhoami \/ ClickGetRecommendation \/ RecWhoamiFails \/ RecWhoami
  \/ RecommendFails \/ RecommendOk \/ UserChartsFails \/ UserChartsOk

\* ------------------------------------------------------------------------
\* Legacy form page (src/diabetes_ai_project/frontend/script.js)
\* ------------------------------------------------------------------------
HistoryLimit == 3

Str(chars) == [t |-> "str", v |-> chars]

IsPrefix(sep, s) == Len(sep) <= Len(s) /\ SubSeq(s, 1, Len(sep)) = sep

\* s.split(sep) for a non-empty separator
RECURSIVE SplitFrom(_, _, _)
SplitFrom(s, sep, cur) ==
  IF s = <<>> THEN <<cur>>
  ELSE IF IsPrefix(sep, s) THEN <<cur>> \o SplitFrom(SubSeq(s, Len(sep) + 1, Len(s)), sep, <<>>)
  ELSE SplitFrom(Tail(s), sep, Append(cur, Head(s)))

Split(s, sep) == SplitFrom(s, sep, <<>>)

CommaSpace == <<",", " ">>

\* "Ensure arrays": Array.isArray(x) ? x : x.split(", ")
EnsureArray(x) == IF IsArray(x) THEN x.v ELSE Split(x.v, CommaSpace)

\* the /recommend answers of the legacy backend: list fields as arrays or as
\* comma-separated strings
LegacyResults ==
  {[bmi |-> Num(22), diet |-> Arr(<<<<"a">>, <<"b">>>>), exercise |-> Arr(<<<<"w">>>>),
    general |-> Arr(<<>>)],
   [bmi |-> Num(27), diet |-> Str(<<"a", ",", " ", "b">>), exercise |-> Str(<<"r">>),
    general |-> Str(<<"s">>)],
   [bmi |-> Num(31), diet |-> Arr(<<<<"<", "i", ">">>>>), exercise |-> Str(<<"&">>),
    general |-> Arr(<<<<"\"">>>>)]}

Normalized(res) ==
  [bmi |-> res.bmi, diet |-> EnsureArray(res.diet), exercise |-> EnsureArray(res.exercise),
   general |-> EnsureArray(res.general)]

\* a rec-box: BMI and the three lists joined with ", ", as received
RecBox(rec) ==
  [kind |-> "box", bmi |-> rec.bmi, diet |-> <<Join(rec.diet, CommaSpace)>>,
   exercise |-> <<Join(rec.exercise, CommaSpace)>>, general |-> <<Join(rec.general, CommaSpace)>>]

updateHistory_push(hist, rec) ==
  LET h == Append(hist, rec)
  IN IF Len(h) > HistoryLimit THEN SubSeq(h, 1, HistoryLimit) ELSE h

\* recommendationHistory after updateHistory(newRecommendation)
updateHistory(hist, rec) ==
  LET h == <<rec>> \o hist
  IN IF Len(h) > HistoryLimit THEN SubSeq(h, 1, HistoryLimit) ELSE h

\* getRecommendations(): a field is empty or not a number
SubmitInvalid ==
  /\ page = "legacy"
  /\ UNCHANGED <<commonVars, fetchVars, clinVars, patVars, legVars, histVars, testVars>>

\* getRecommendations(): the form is valid, POST /recommend is sent
Submit ==
  /\ page = "legacy" /\ sent < MaxRequests
  /\ sent' = sent + 1
  /\ inFlight' = inFlight + 1
  /\ UNCHANGED <<commonVars, fetchVars, clinVars, patVars, histVars, testVars,
                 recommendationHistory, result, historyList, received>>

\* one of the requests in flight fails, or its answer cannot be used; the
\* catch reports it
ResponseFails ==
  /\ page = "legacy" /\ inFlight > 0
  /\ inFlight' = inFlight - 1
  /\ UNCHANGED <<page, location, issued, chartsOn, fetchVars, clinVars, patVars, histVars,
                 testVars, recommendationHistory, result, historyList, sent, received>>

\* one of the requests in flight is answered: the lists are normalized, the
\* result is displayed and updateHistory stores and renders it
ResponseOk ==
  /\ page = "legacy" /\ inFlight > 0
  /\ inFlight' = inFlight - 1
  /\ \E res \in LegacyResults :
       \E rec \in {Normalized(res)} :
       \E hist \in {updateHistory(recommendationHistory, rec)} :
         /\ result' = RecBox(rec)
         /\ recommendationHistory' = hist
         /\ historyList' = [i \in 1..Len(hist) |-> RecBox(hist[i])]
         /\ received' = <<rec>> \o received
  /\ UNCHANGED <<commonVars, fetchVars, clinVars, patVars, histVars, testVars, sent>>

NextLegacy == SubmitInvalid \/ Submit \/ ResponseFails \/ ResponseOk

\* ------------------------------------------------------------------------
\* Legacy history page (src/unnamed/part_001); its chart handle is the
\* page's own bmiChartInstance
\* ------------------------------------------------------------------------
HistoryAnswers ==
  {<<>>, <<PlainRec>>, <<MarkupRec, PlainRec>>}

\* loadHistory(): /history answers; the table is rendered with the fields as
\* received and the BMI chart is drawn
HistoryOk ==
  /\ page = "history" /\ histPc = "fetch"
  /\ \E data \in HistoryAnswers :
       historyTable' = [i \in 1..Len(data) |->
                          [kind |-> "row", bmi |-> data[i].bmi,
                           diet |-> <<Join(data[i].diet, CommaSpace)>>,
                           exercise |-> <<Join(data[i].exercise, CommaSpace)>>,
                           general |-> <<Join(data[i].general, CommaSpace)>>]]
  /\ chartsOn' = NewChart(DestroyVia(chartsOn, "bmiChart", bmiChartInstance), "bmiChart")
  /\ bmiChartInstance' = "live"
  /\ histPc' = "done"
  /\ UNCHANGED <<page, location, issued, fetchVars, feedbackChartInstance, allPatients,
                 statusMsg, patientsTable, welcomeText, listeners, bmiFilter, feedbackFilter,
                 initPc, lastApply, patVars, legVars, testVars>>

\* loadHistory(): the fetch fails; the catch logs the error
HistoryFails ==
  /\ page = "history" /\ histPc = "fetch"
  /\ histPc' = "done"
  /\ UNCHANGED <<commonVars, fetchVars, clinVars, patVars, legVars, testVars, historyTable>>

\* loadHistory() is called again once the previous call has settled
LoadHistoryAgain ==
  /\ page = "history" /\ histPc = "done"
  /\ histPc' = "fetch"
  /\ UNCHANGED <<commonVars, fetchVars, clinVars, patVars, legVars, testVars, historyTable>>

NextHistory == HistoryOk \/ HistoryFails \/ LoadHistoryAgain

\* ------------------------------------------------------------------------
\* Renderer harness: renderTable and renderListCell applied to chosen input
\* ------------------------------------------------------------------------
RenderBmi == {Undef, Null, Num(30)}
RenderFeedback == {Null, Num(2), Num(4)}
RenderRisks == {NoArr, Arr(<<>>), Arr(<<<<"x", "&">>>>)}
RenderRecords ==
  {[name |-> <<"<", "A", ">">>, bmi |-> b, diet |-> Arr(<<<<"a">>, <<>>, <<"'">>>>),
    exercise |-> NoArr, general |-> Arr(<<>>), feedback |-> f, risks |-> r,
    ai_explanation |-> <<"\"">>] : b \in RenderBmi, f \in RenderFeedback, r \in RenderRisks}
RenderRows == UNION {[1..n -> RenderRecords] : n \in 0..MaxRows}

ItemStrings == {<<>>, <<"a">>, <<"<">>}
ItemLists == {NoArr} \cup {Arr(l) : l \in UNION {[1..n -> ItemStrings] : n \in 0..MaxItems}}

\* renderTable(tRows) is called, up to twice in succession
CallRenderTable ==
  /\ page = "harness" /\ Len(tHtml) < 2
  /\ \E out \in {renderTable(tRows)} :
       /\ tHtml' = Append(tHtml, out.html)
       /\ tRows' = out.rows
  /\ UNCHANGED <<commonVars, fetchVars, clinVars, patVars, legVars, histVars, tItems, tCell>>

\* renderListCell(tItems) is called
CallRenderListCell ==
  /\ page = "harness" /\ tCell = NoCell
  /\ tCell' = renderListCell(tItems)
  /\ UNCHANGED <<commonVars, fetchVars, clinVars, patVars, legVars, histVars, tRows, tHtml,
                 tItems>>

NextRender == CallRenderTable \/ CallRenderListCell

\* ------------------------------------------------------------------------
\* Specifications
\* ------------------------------------------------------------------------
vars == <<commonVars, fetchVars, clinVars, patVars, legVars, histVars, testVars>>

\* Each script right after it has been evaluated: its module-level bindings,
\* and the task its load event starts with the first request in flight
InitPage ==
  /\ location = ""
  /\ issued = [t \in {"init"} |-> {}]
  /\ chartsOn = [c \in Canvases |-> 0]
  /\ bmiChartInstance = "null" /\ feedbackChartInstance = "null"
  /\ allPatients = <<>> /\ statusMsg = "" /\ patientsTable = NoMarkup
  /\ welcomeText = "" /\ listeners = {}
  /\ bmiFilter = "all" /\ feedbackFilter = "all"
  /\ initPc = IF page = "clinician" THEN "whoami" ELSE "off"
  /\ fi = 0 /\ lastErr = NoErr /\ delays = <<>> /\ nRequests = 0
  /\ lastOutcome = NoOutcome /\ fetchResult = Pending
  /\ lastApply = NoApply
  /\ currentUserId = Null
  /\ charts = [c \in PatientCanvases |-> "null"]
  /\ recommendationResult = NoResult
  /\ chartsTitle = FALSE
  /\ loadPc = IF page = "patient" THEN "whoami" ELSE "off"
  /\ recTasks = [i \in 1..MaxTasks |-> IdleTask]
  /\ recommendationHistory = <<>> /\ result = NoResult /\ historyList = <<>>
  /\ inFlight = 0 /\ sent = 0 /\ received = <<>>
  /\ historyTable = <<>>
  /\ histPc = IF page = "history" THEN "fetch" ELSE "off"

Init ==
  /\ page \in {"clinician", "patient", "legacy", "history"}
  /\ InitPage
  /\ tRows = <<>> /\ tHtml = <<>> /\ tItems = NoArr /\ tCell = NoCell

Next == NextClinician \/ NextPatient \/ NextLegacy \/ NextHistory \/ Unload

Spec == Init /\ [][Next]_vars

InitRender ==
  /\ page = "harness"
  /\ InitPage
  /\ \/ tRows \in RenderRows /\ tItems = NoArr
     \/ tRows = <<>> /\ tItems \in ItemLists
  /\ tHtml = <<>> /\ tCell = NoCell

SpecRender == InitRender /\ [][NextRender]_vars

\* ------------------------------------------------------------------------
\* Properties
\* ------------------------------------------------------------------------
Take(seq, n) == SubSeq(seq, 1, IF Len(seq) < n THEN Len(seq) ELSE n)

\* C1: fetchWithRetry(url, 3) returns the payload of the attempt that
\* succeeded and sends nothing afterwards; when every attempt fails it throws
\* the last error after exactly 3 requests, and the only delays it has waited
\* are 250 ms and 500 ms, between the attempts.
C1_RetryContract ==
  /\ nRequests <= 3
  /\ fetchResult.state = "returned" =>
       /\ lastOutcome.ok
       /\ fetchResult.payload = lastOutcome.payload
       /\ delays = [k \in 1..(nRequests - 1) |-> 250 * k]
  /\ fetchResult.state = "thrown" =>
       /\ nRequests = 3
       /\ ~lastOutcome.ok
       /\ fetchResult.err = lastOutcome.err
       /\ delays = <<250, 500>>

\* C2: when /whoami names another role than the page requires, the guard
\* redirects and the calling task aborts: it sends no data request (GET
\* /clinician-data, POST /recommend, GET /user-charts) and sets up no page
\* state (currentUserId, listeners, rendered result).
C2_GuardAborts ==
  /\ (page = "clinician" /\ initPc = "done" /\ location = "/clinician_login.html") =>
       /\ "/clinician-data" \notin issued["init"]
       /\ listeners = {}
       /\ allPatients = <<>>
       /\ patientsTable = NoMarkup
  /\ \A t \in 1..MaxTasks :
       recTasks[t].mismatch =>
         /\ recTasks[t].issued \cap {"/recommend", "/user-charts"} = {}
         /\ recTasks[t].pc = "idle"
  /\ (loadPc = "mismatch" /\ \A t \in 1..MaxTasks : recTasks[t].issued = {}) =>
       currentUserId = Null

\* the handle through which the loaded page reaches the chart of a canvas
HandleOf(c) ==
  CASE page = "clinician" /\ c = "bmiChart" -> bmiChartInstance
    [] page = "clinician" /\ c = "feedbackChart" -> feedbackChartInstance
    [] page = "patient" /\ c \in PatientCanvases -> charts[c]
    [] page = "history" /\ c = "bmiChart" -> bmiChartInstance
    [] OTHER -> "null"

\* C3: after any sequence of draw invocations at most one chart instance that
\* is not destroyed is bound to each canvas, and it is the one the page's
\* handle refers to: every earlier instance has been destroyed.
C3_OneChartPerCanvas ==
  \A c \in Canvases :
    /\ chartsOn[c] <= 1
    /\ chartsOn[c] = (IF HandleOf(c) = "live" THEN 1 ELSE 0)

\* a clinician redraw over existing charts: the load drew them, a later
\* applyFilters with a non-empty result drew them again
C3_Witness ==
  /\ page = "clinician"
  /\ Len(fetchResult.payload) > 0
  /\ lastApply.called /\ Len(lastApply.rows) > 0
  /\ chartsOn["bmiChart"] = 1 /\ chartsOn["feedbackChart"] = 1

\* the bands as the claim words them, on a record of the full set
InBmiSelection(sel, p) ==
  \/ sel = "all"
  \/ sel = "low" /\ p.bmi.t = "num" /\ p.bmi.v < 25
  \/ sel = "medium" /\ p.bmi.t = "num" /\ 25 <= p.bmi.v /\ p.bmi.v < 30
  \/ sel = "high" /\ p.bmi.t = "num" /\ p.bmi.v >= 30

InFeedbackSelection(sel, p) ==
  \/ sel = "all"
  \/ sel = "low" /\ p.feedback.t = "num" /\ p.feedback.v < 3
  \/ sel = "high" /\ p.feedback.t = "num" /\ p.feedback.v >= 4

\* C4: after any sequence of applyFilters calls, the rows handed to
\* renderTable and drawCharts are exactly the records of allPatients inside
\* the selected bands, in allPatients order, whatever was selected before.
C4_FilterExact ==
  lastApply.called =>
    lastApply.rows =
      SelectSeq(allPatients, LAMBDA p : /\ InBmiSelection(lastApply.bmi, p)
                                        /\ InFeedbackSelection(lastApply.feedback, p))

\* high BMI and low feedback selected: some records kept, some dropped, among
\* them one with null feedback
C4_Witness ==
  /\ lastApply.called /\ lastApply.bmi = "high" /\ lastApply.feedback = "low"
  /\ Len(lastApply.rows) = 1 /\ Len(allPatients) = 2
  /\ \E i \in 1..2 : allPatients[i].bmi = Num(30) /\ allPatients[i].feedback = Null

\* C5: recommendationHistory holds exactly the most recently received
\* recommendations, at most 3, newest first.
C5_HistoryLastThree ==
  /\ Len(recommendationHistory) <= 3
  /\ recommendationHistory = Take(received, 3)

\* a fourth recommendation has arrived and the oldest was dropped
C5_Witness ==
  /\ Len(received) = 4
  /\ received[4] # received[3]
  /\ Len(recommendationHistory) = 3

EntityStrings == {EntityOf(c) : c \in SpecialChars}

\* no special character stands in the text, except "&" opening an entity
Escaped(text) ==
  \A i \in 1..Len(text) :
    /\ text[i] \notin {"<", ">", "\"", "'"}
    /\ text[i] = "&" =>
         \E e \in EntityStrings :
           i + Len(e) - 1 <= Len(text) /\ SubSeq(text, i, i + Len(e) - 1) = e

AllEscaped(texts) == \A i \in 1..Len(texts) : Escaped(texts[i])

TableEscaped(markup) ==
  \A i \in 1..Len(markup.rows) :
    LET row == markup.rows[i]
    IN /\ Escaped(row.name) /\ Escaped(row.risk) /\ Escaped(row.ai)
       /\ \A cell \in {row.diet, row.exercise, row.general} :
            AllEscaped(cell.inline) /\ AllEscaped(cell.all)

CardEscaped(card) ==
  AllEscaped(card.diet) /\ AllEscaped(card.exercise) /\ AllEscaped(card.general)

\* C6: the markup the page renderers insert (clinician table, patient
\* recommendation card, legacy result and history boxes, history table) holds
\* no unescaped & < > " ' coming from a record.
C6_MarkupEscaped ==
  /\ TableEscaped(patientsTable)
  /\ CardEscaped(recommendationResult)
  /\ CardEscaped(result)
  /\ \A i \in 1..Len(historyList) : CardEscaped(historyList[i])
  /\ \A i \in 1..Len(historyTable) : CardEscaped(historyTable[i])

EscapeAll(entries) == [i \in 1..Len(entries) |-> escapeHtml(entries[i])]

\* C7 as claimed: a list field with more than 3 entries shows its first 3
\* entries inline and a disclosure listing all entries, labelled with the
\* length of the field; with 1 to 3 entries, all inline and no disclosure.
C7_TruncationByLength ==
  (tCell # NoCell /\ IsArray(tItems)) =>
    LET n == Len(tItems.v)
    IN /\ n > 3 =>
            /\ tCell.inline = EscapeAll(Take(tItems.v, 3))
            /\ tCell.details /\ tCell.count = n
            /\ tCell.all = EscapeAll(tItems.v)
       /\ (1 <= n /\ n <= 3) =>
            /\ tCell.inline = EscapeAll(tItems.v)
            /\ ~tCell.details

NonEmptyEntries(entries) == SelectSeq(entries, LAMBDA e : Len(e) > 0)

\* C7 amended: the same, counted over the entries that are not empty; a field
\* without any shows the dash.
C7_TruncationOfNonEmpty ==
  (tCell # NoCell /\ IsArray(tItems)) =>
    LET kept == NonEmptyEntries(tItems.v)
        n == Len(kept)
    IN /\ n > 3 =>
            /\ tCell.inline = EscapeAll(Take(kept, 3))
            /\ tCell.details /\ tCell.count = n
            /\ tCell.all = EscapeAll(kept)
       /\ (1 <= n /\ n <= 3) =>
            /\ tCell.inline = EscapeAll(kept)
            /\ ~tCell.details /\ ~tCell.muted
       /\ n = 0 => tCell.muted /\ ~tCell.details

\* five entries, one of them empty: three inline and "Show all (4)"
C7_Witness ==
  /\ tCell # NoCell /\ IsArray(tItems)
  /\ Len(tItems.v) = 5
  /\ tCell.details /\ tCell.count = 4 /\ Len(tCell.inline) = 3

\* C8: two renderTable calls in succession on the same record set produce
\* identical markup.
C8_RenderIdempotent ==
  Len(tHtml) = 2 => tHtml[1] = tHtml[2]

\* rendered twice, with a record whose empty risks list took the synthesized
\* labels in the first call
C8_Witness ==
  /\ Len(tHtml) = 2
  /\ \E i \in 1..Len(tRows) :
       tRows[i].risks = Arr(<<HighBmiLabel, LowFeedbackLabel>>)

\* C9: when /clinician-data fails on every retry, init shows the "could not
\* load" banner and the apply, PDF and logout buttons have their handlers.
C9_InteractiveAfterFailure ==
  (page = "clinician" /\ initPc = "done" /\ fetchResult.state = "thrown") =>
    /\ statusMsg = CouldNotLoad
    /\ {"applyBtn", "pdfBtn", "logoutBtn"} \subseteq listeners

\* C10: an applyFilters call, with the renderTable and drawCharts calls it
\* makes, leaves allPatients as it was: the same records in the same order,
\* every field of each, the risks list included.
C10_ApplyKeepsAllPatients ==
  lastApply.called => allPatients = lastApply.before

\* applyFilters has re-rendered a record whose risks list holds a synthesized
\* label, and dropped another record from the view
C10_Witness ==
  /\ lastApply.called
  /\ Len(lastApply.rows) < Len(allPatients)
  /\ \E i \in 1..Len(lastApply.rows) : lastApply.rows[i].risks = Arr(<<HighBmiLabel>>)
  /\ allPatients # fetchResult.payload

====
